---- MODULE Spec2Model ----
(***************************************************************************)
(* Model of the TwinCAT VirtualBox provisioning tool (src/src/app.mjs).    *)
(* The file holds two variants of the program: the base variant (lines     *)
(* 1-227, '.iso' only, first-line bridged adapter heuristic) and the       *)
(* extended variant (lines 229-505, '.iso' + '.img', NAT / bridged         *)
(* prompt).  One run of the program is modelled as a state machine whose   *)
(* position pc moves through promptUser and setupVM; every interactive     *)
(* prompt, every filesystem check and every execSync call is one step.     *)
(*                                                                         *)
(* JavaScript strings are modelled as sequences of atoms: an atom is one   *)
(* character, or an indivisible piece of text holding none of the          *)
(* characters the program looks for (quote, colon, dot, blank, newline).   *)
(***************************************************************************)
EXTENDS Integers, Sequences, FiniteSets, TLC

\* ------------------------------------------------------------------ bounds
MaxFiles == 2
MaxLines == 2

\* ------------------------------------------------------- program constants
hddSizeGBDefault == 10

virtualBoxPath == <<"C", ":", "\\", "Program Files", "\\", "Oracle", "\\", "VirtualBox">>

HomeDir == <<"C", ":", "\\", "Users", "\\", "op">>

\* ------------------------------------------------------- string primitives
WS == {" ", "\n"}

StartsWith(s, pre) ==
  /\ Len(s) >= Len(pre)
  /\ SubSeq(s, 1, Len(pre)) = pre

EndsWith(s, suf) ==
  /\ Len(s) >= Len(suf)
  /\ SubSeq(s, Len(s) - Len(suf) + 1, Len(s)) = suf

Includes(hay, needle) ==
  \E i \in 1..(Len(hay) - Len(needle) + 1) :
    SubSeq(hay, i, i + Len(needle) - 1) = needle

RECURSIVE TrimStart(_)
TrimStart(s) ==
  IF s # <<>> /\ Head(s) \in WS THEN TrimStart(Tail(s)) ELSE s

RECURSIVE TrimEnd(_)
TrimEnd(s) ==
  IF s # <<>> /\ s[Len(s)] \in WS THEN TrimEnd(SubSeq(s, 1, Len(s) - 1)) ELSE s

Trim(s) == TrimEnd(TrimStart(s))

\* s.split(sep) for a one-character separator: the pieces between separators
RECURSIVE SplitFrom(_, _, _)
SplitFrom(s, sep, cur) ==
  IF s = <<>> THEN <<cur>>
  ELSE IF Head(s) = sep THEN <<cur>> \o SplitFrom(Tail(s), sep, <<>>)
  ELSE SplitFrom(Tail(s), sep, Append(cur, Head(s)))

Split(s, sep) == SplitFrom(s, sep, <<>>)

RECURSIVE JoinLines(_)
JoinLines(ls) ==
  IF ls = <<>> THEN <<>>
  ELSE IF Len(ls) = 1 THEN Head(ls)
  ELSE Head(ls) \o <<"\n">> \o JoinLines(Tail(ls))

\* path.join of a directory and one name
PathJoin(dir, name) == dir \o <<"\\">> \o name

\* ---------------------------------------------------------- JS numbers
\* A JS number is NaN or the rational num/den (den a power of ten).
NaN == [nan |-> TRUE, num |-> 0, den |-> 1]

Num(n) == [nan |-> FALSE, num |-> n, den |-> 1]

DigitChars == <<"0", "1", "2", "3", "4", "5", "6", "7", "8", "9">>

Digits == {DigitChars[i] : i \in 1..10}

DigitVal(c) == (CHOOSE i \in 1..10 : DigitChars[i] = c) - 1

RECURSIVE DecimalValue(_, _)
DecimalValue(ds, acc) ==
  IF ds = <<>> THEN acc ELSE DecimalValue(Tail(ds), acc * 10 + DigitVal(Head(ds)))

RECURSIVE Pow10(_)
Pow10(k) == IF k = 0 THEN 1 ELSE 10 * Pow10(k - 1)

AllDigits(s) == \A i \in 1..Len(s) : s[i] \in Digits

RECURSIVE DigitPrefix(_)
DigitPrefix(s) ==
  IF s # <<>> /\ Head(s) \in Digits THEN <<Head(s)>> \o DigitPrefix(Tail(s)) ELSE <<>>

\* String(n) for a non-negative integer
RECURSIVE NatToString(_)
NatToString(n) ==
  IF n < 10 THEN <<DigitChars[n + 1]>>
  ELSE Append(NatToString(n \div 10), DigitChars[(n % 10) + 1])

\* ToNumber of a string (the coercion behind isNaN(s) and s > 0): blanks are
\* trimmed, the empty string is 0, then [sign] digits [. digits] or
\* [sign] . digits; anything else is NaN.  (Exponents, hex and Infinity are
\* outside the alphabet of the inputs drawn here.)
UnsignedToNumber(u) ==
  LET ip == DigitPrefix(u)
      rest == SubSeq(u, Len(ip) + 1, Len(u))
  IN IF rest = <<>>
       THEN IF ip = <<>> THEN NaN ELSE Num(DecimalValue(ip, 0))
     ELSE IF Head(rest) = "." /\ AllDigits(Tail(rest)) /\ (ip # <<>> \/ Tail(rest) # <<>>)
       THEN [nan |-> FALSE,
             num |-> DecimalValue(ip \o Tail(rest), 0),
             den |-> Pow10(Len(Tail(rest)))]
     ELSE NaN

StringToNumber(s) ==
  LET t == Trim(s)
  IN IF t = <<>> THEN Num(0)
     ELSE IF Head(t) = "-"
       THEN LET v == UnsignedToNumber(Tail(t))
            IN [nan |-> v.nan, num |-> 0 - v.num, den |-> v.den]
     ELSE IF Head(t) = "+" THEN UnsignedToNumber(Tail(t))
     ELSE UnsignedToNumber(t)

isNaN(s) == StringToNumber(s).nan

GreaterThanZero(s) ==
  LET v == StringToNumber(s) IN ~v.nan /\ v.num > 0

\* parseInt(s, 10): leading blanks skipped, optional sign, longest digit
\* prefix; NaN when that prefix is empty
parseInt(s) ==
  LET t == TrimStart(s)
      neg == t # <<>> /\ Head(t) = "-"
      u == IF t # <<>> /\ Head(t) \in {"-", "+"} THEN Tail(t) ELSE t
      ip == DigitPrefix(u)
  IN IF ip = <<>> THEN NaN
     ELSE Num(IF neg THEN 0 - DecimalValue(ip, 0) ELSE DecimalValue(ip, 0))

\* x * k for a JS number x and an integer k
Times(x, k) == IF x.nan THEN NaN ELSE [nan |-> FALSE, num |-> x.num * k, den |-> x.den]

IsPositiveInteger(x) == ~x.nan /\ x.den = 1 /\ x.num > 0

\* ------------------------------------------------- optional values (null)
Null == [isNull |-> TRUE, str |-> <<>>]

Some(s) == [isNull |-> FALSE, str |-> s]

\* JS truthiness of a string-or-null/undefined value
Truthy(o) == ~o.isNull /\ o.str # <<>>

\* ---------------------------------------------------------- the environment
\* names an operator may type for the machine
Names == {<<"vm">>, <<"a", "vm">>}

RegistryChoices == {<<>>, <<<<"vm">>>>, <<<<"a", "vm">>>>}

\* files that may lie in the image folder
Files == {<<"tcbsd", ".", "iso">>, <<"rt", ".", "img">>, <<"old", ".", "iso", ".", "txt">>}

\* directory listings: no name twice, at most MaxFiles names
RECURSIVE SeqsUpTo(_, _)
SeqsUpTo(S, n) ==
  IF n = 0 THEN {<<>>}
  ELSE LET shorter == SeqsUpTo(S, n - 1)
       IN shorter \cup {Append(q, x) : q \in {r \in shorter : Len(r) = n - 1}, x \in S}

Injective(q) == \A i, j \in 1..Len(q) : i # j => q[i] # q[j]

Listings == {q \in SeqsUpTo(Files, MaxFiles) : Injective(q)}

\* answers an operator may type at the disk size prompt (<<>> = just Enter)
HddInputs == {<<>>, <<"1">>, <<"0">>, <<"-", "5">>, <<"abc">>, <<"0", ".", "5">>}

\* answers at the folder prompt: the operator accepts the default
FolderInputs == {<<>>}

\* lines the 'list systemproperties' query may print
SysPropLines ==
  { <<"API version", ":", " ", "7_0">>,
    <<"Default machine folder", ":", " ", " ", "D", ":", "\\", "VMs", " ">> }

SysPropOutputs == {JoinLines(ls) : ls \in SeqsUpTo(SysPropLines, MaxLines)}

\* lines the 'list bridgedifs' query may print
BridgedLines ==
  { <<"GUID", ":", " ", "g1">>,
    <<"Name", ":">>,
    <<" ", "Name", ":", " ", "Wi", ":", "Fi">> }

BridgedOutputs == {JoinLines(ls) : ls \in SeqsUpTo(BridgedLines, MaxLines)}

\* 'list vms' prints one line per registered machine: "name" {uuid}
RECURSIVE ListVmsOutput(_)
ListVmsOutput(reg) ==
  IF reg = <<>> THEN <<>>
  ELSE <<"\"">> \o Head(reg) \o <<"\"", " ", "{uuid}", "\n">> \o ListVmsOutput(Tail(reg))

Quoted(name) == <<"\"">> \o name \o <<"\"">>

\* ------------------------------------------------------------------- state
VARIABLES
  variant,            \* "base" (lines 1-227) or "extended" (lines 229-505)
  vboxExists,         \* VBoxManage.exe is present at virtualBoxPath
  folderExists,       \* the image folder exists
  dirListing,         \* readdirSync of the image folder
  registry,           \* machines registered with VirtualBox, in listing order
  peerPc,             \* position of a second instance of the tool ("off": there is none)
  peerName,           \* the machine name of the second instance's request
  peerListing,        \* the 'list vms' output the second instance read
  pc,                 \* position of the run
  status,             \* "running", "success", "fatal", "cancelled", "crashed"
  exitCode,           \* process exit status, NoExit while running
  availableImages,    \* availableISOs / availableInstallerImages
  virtualMachineName,
  imgSelection,       \* isoSelection / imgSelection
  hddAnswer,          \* the text the disk size prompt resolved to
  hddSizeGB,
  defaultFolder,      \* result of getDefaultVMFolder()
  vmFolder,
  networkType,
  bridgedAdapter,     \* bridgedAdapter / firstAdapter
  adapters,           \* result of listBridgedAdapters()
  events,             \* checks, prompts and external commands, in order
  log                 \* lines printed, in order

peerVars == <<peerPc, peerName, peerListing>>

envVars == <<variant, vboxExists, folderExists, dirListing, peerVars>>

reqVars == <<availableImages, virtualMachineName, imgSelection, hddAnswer, hddSizeGB,
             defaultFolder, vmFolder, networkType, bridgedAdapter, adapters>>

vars == <<variant, vboxExists, folderExists, dirListing, peerVars, registry, pc, status, exitCode,
          availableImages, virtualMachineName, imgSelection, hddAnswer, hddSizeGB,
          defaultFolder, vmFolder, networkType, bridgedAdapter, adapters,
          events, log>>

NoExit == 0 - 1

NoSize == Num(0)

Init ==
  /\ variant \in {"base", "extended"}
  /\ vboxExists \in BOOLEAN
  /\ folderExists \in BOOLEAN
  /\ dirListing \in Listings
  /\ registry \in RegistryChoices
  /\ peerPc = "off"
  /\ peerName = <<>>
  /\ peerListing = <<>>
  /\ pc = "getImages"
  /\ status = "running"
  /\ exitCode = NoExit
  /\ availableImages = <<>>
  /\ virtualMachineName = <<>>
  /\ imgSelection = <<>>
  /\ hddAnswer = <<>>
  /\ hddSizeGB = Num(0)
  /\ defaultFolder = Null
  /\ vmFolder = <<>>
  /\ networkType = "unset"
  /\ bridgedAdapter = Null
  /\ adapters = <<>>
  /\ events = <<>>
  /\ log = <<>>

\* ------------------------------------------------------ events and exits
CheckEvent == [kind |-> "check", op |-> "existsSync VBoxManage.exe", arg |-> <<>>,
               size |-> NoSize, ok |-> vboxExists]

ImageCheckEvent(present) ==
  [kind |-> "check", op |-> "existsSync image", arg |-> <<>>, size |-> NoSize, ok |-> present]

PromptEvent(what, answered) ==
  [kind |-> "prompt", op |-> what, arg |-> <<>>, size |-> NoSize, ok |-> answered]

ExecEvent(op, arg, size, ok) == [kind |-> "exec", op |-> op, arg |-> arg, size |-> size, ok |-> ok]

\* (variant of Exit1 that ends the process with status 0)
Exit1WithStatusZero(msgs) ==
  /\ log' = log \o msgs
  /\ status' = "fatal"
  /\ exitCode' = 0

\* process.exit(1) after printing msg
Exit1(msgs) ==
  /\ log' = log \o msgs
  /\ status' = "fatal"
  /\ exitCode' = 1

\* (variant of the handler without the ExitPromptError case)
UncaughtExceptionRethrowingAll(errorName, printed) ==
  /\ log' = Append(printed, "<uncaught error and stack trace>")
  /\ status' = "crashed"
  /\ exitCode' = 7

\* the process 'uncaughtException' handler, reached by the rejection of
\* setupVM()'s promise: the abort of a prompt prints "Exiting" and the handler
\* returns, so the process ends through an empty event loop with status 0;
\* any other error is thrown again from the handler, which makes node print
\* it and exit with status 7.
UncaughtException(errorName, printed) ==
  IF errorName = "ExitPromptError"
    THEN /\ log' = Append(printed, "Exiting")
         /\ status' = "cancelled"
         /\ exitCode' = 0
    ELSE /\ log' = Append(printed, "<uncaught error and stack trace>")
         /\ status' = "crashed"
         /\ exitCode' = 7

Running(at) == status = "running" /\ pc = at

\* ------------------------------------------------------- pure functions
\* the extension filter of getAvailableISOs / getAvailableInstallerImages
\* (variant of Recognized that takes any name holding ".iso" or ".img")
RecognizedAnywhere(v, file) ==
  \/ Includes(file, <<".", "iso">>)
  \/ v = "extended" /\ Includes(file, <<".", "img">>)

Recognized(v, file) ==
  \/ EndsWith(file, <<".", "iso">>)
  \/ v = "extended" /\ EndsWith(file, <<".", "img">>)

FilterImages(v, listing) == SelectSeq(listing, LAMBDA f : Recognized(v, f))

\* output.match(/Default machine folder:\s+(.*)/): the first place where the
\* label is followed by at least one blank; the group is what follows the
\* blanks up to the end of that line
MatchDefaultFolder(output) ==
  LET starts == {i \in 1..(Len(output) - 2) :
                   /\ output[i] = "Default machine folder"
                   /\ output[i + 1] = ":"
                   /\ output[i + 2] \in WS}
  IN IF starts = {} THEN Null
     ELSE LET i == CHOOSE k \in starts : \A m \in starts : k <= m
              rest == TrimStart(SubSeq(output, i + 2, Len(output)))
          IN Some(Split(rest, "\n")[1])

FallbackFolder == PathJoin(HomeDir, <<"VirtualBox VMs">>)

\* getDefaultVMFolder(), given whether the query ran and what it printed
getDefaultVMFolder(ok, output) ==
  IF ok
    THEN LET match == MatchDefaultFolder(output)
         IN IF ~match.isNull THEN Some(Trim(match.str)) ELSE Null
    ELSE Some(FallbackFolder)

MapSeq(q, F(_)) == [i \in 1..Len(q) |-> F(q[i])]

\* listBridgedAdapters(), given whether the query ran and what it printed
\* (variant of listBridgedAdapters without the final filter(Boolean))
listBridgedAdaptersKeepingEmptyNames(ok, output) ==
  IF ok
    THEN LET lines == MapSeq(Split(output, "\n"), Trim)
             named == SelectSeq(lines, LAMBDA l : StartsWith(l, <<"Name", ":">>))
         IN MapSeq(named, LAMBDA l : Trim(Split(l, ":")[2]))
    ELSE <<>>

listBridgedAdapters(ok, output) ==
  IF ok
    THEN LET lines == MapSeq(Split(output, "\n"), Trim)
             named == SelectSeq(lines, LAMBDA l : StartsWith(l, <<"Name", ":">>))
             names == MapSeq(named, LAMBDA l : Trim(Split(l, ":")[2]))
         IN SelectSeq(names, LAMBDA n : n # <<>>)
    ELSE <<>>

\* base variant: bridgedAdapters.split("\n")[0].split(":")[1]?.trim()
FirstAdapter(output) ==
  LET parts == Split(Split(output, "\n")[1], ":")
  IN IF Len(parts) < 2 THEN Null ELSE Some(Trim(parts[2]))

\* the validate function of the disk size prompt
ValidateHddSize(input) == ~isNaN(input) /\ GreaterThanZero(input)

\* ----------------------------------------------------------- promptUser
PromptPcs == {"name", "image", "hdd", "folder",
              "network", "adapter"}

\* the return statement of promptUser: the disk size is parsed here
ReturnRequest ==
  /\ hddSizeGB' = parseInt(hddAnswer)
  /\ pc' = "checkVBox"

GetAvailableImages ==
  /\ Running("getImages")
  /\ IF ~folderExists
       THEN /\ Exit1(<<"image folder not found">>)
            /\ UNCHANGED <<pc, availableImages>>
     ELSE IF FilterImages(variant, dirListing) = <<>>
       THEN /\ Exit1(<<"no image files found">>)
            /\ UNCHANGED <<pc, availableImages>>
     ELSE /\ availableImages' = FilterImages(variant, dirListing)
          /\ pc' = "name"
          /\ UNCHANGED <<status, exitCode, log>>
  /\ UNCHANGED <<envVars, registry, virtualMachineName, imgSelection, hddAnswer, hddSizeGB,
                 defaultFolder, vmFolder, networkType, bridgedAdapter, adapters,
                 events>>

PromptName ==
  /\ Running("name")
  /\ \E n \in Names : virtualMachineName' = n
  /\ events' = Append(events, PromptEvent("name", TRUE))
  /\ pc' = "image"
  /\ UNCHANGED <<envVars, registry, status, exitCode, availableImages, imgSelection, hddAnswer,
                 hddSizeGB, defaultFolder, vmFolder, networkType, bridgedAdapter, adapters,
                 log>>

PromptImage ==
  /\ Running("image")
  /\ \E i \in 1..Len(availableImages) : imgSelection' = availableImages[i]
  /\ events' = Append(events, PromptEvent("image", TRUE))
  /\ pc' = "hdd"
  /\ UNCHANGED <<envVars, registry, status, exitCode, availableImages, virtualMachineName,
                 hddAnswer, hddSizeGB, defaultFolder, vmFolder, networkType, bridgedAdapter,
                 adapters, log>>

\* an empty answer stands for the default; a rejected answer leaves the
\* prompt showing, with nothing of the run changed
PromptHddSize ==
  /\ Running("hdd")
  /\ \E typed \in HddInputs :
       LET answer == IF typed = <<>> THEN NatToString(hddSizeGBDefault) ELSE typed
       IN IF ValidateHddSize(answer)
            THEN /\ hddAnswer' = answer
                 /\ events' = Append(events, PromptEvent("hdd", TRUE))
                 /\ pc' = "getDefaultFolder"
            ELSE UNCHANGED <<hddAnswer, events, pc>>
  /\ UNCHANGED <<envVars, registry, status, exitCode, availableImages, virtualMachineName,
                 imgSelection, hddSizeGB, defaultFolder, vmFolder, networkType, bridgedAdapter,
                 adapters, log>>

\* the default of the folder prompt is computed before the prompt is shown;
\* the query cannot run when the executable is not there
GetDefaultVMFolder ==
  /\ Running("getDefaultFolder")
  /\ \E ok \in BOOLEAN, output \in SysPropOutputs :
       /\ ok => vboxExists
       /\ ok \/ output = <<>>
       /\ defaultFolder' = getDefaultVMFolder(ok, output)
       /\ events' = Append(events, ExecEvent("list systemproperties", <<>>, NoSize, ok))
       /\ log' = IF ok THEN log ELSE Append(log, "Could not detect default folder. Falling back.")
  /\ pc' = "folder"
  /\ UNCHANGED <<envVars, registry, status, exitCode, availableImages, virtualMachineName,
                 imgSelection, hddAnswer, hddSizeGB, vmFolder, networkType, bridgedAdapter,
                 adapters>>

PromptFolder ==
  /\ Running("folder")
  /\ \E typed \in FolderInputs :
       vmFolder' = IF typed # <<>> THEN typed
                   ELSE IF defaultFolder.isNull THEN <<>> ELSE defaultFolder.str
  /\ events' = Append(events, PromptEvent("folder", TRUE))
  /\ IF variant = "extended"
       THEN pc' = "network" /\ UNCHANGED hddSizeGB
       ELSE ReturnRequest
  /\ UNCHANGED <<envVars, registry, status, exitCode, availableImages, virtualMachineName,
                 imgSelection, hddAnswer, defaultFolder, networkType, bridgedAdapter, adapters,
                 log>>

PromptNetwork ==
  /\ Running("network")
  /\ \E choice \in {"nat", "bridged"} :
       /\ networkType' = choice
       /\ IF choice = "bridged"
            THEN pc' = "checkVBoxPrompt" /\ UNCHANGED hddSizeGB
            ELSE ReturnRequest
  /\ events' = Append(events, PromptEvent("network", TRUE))
  /\ UNCHANGED <<envVars, registry, status, exitCode, availableImages, virtualMachineName,
                 imgSelection, hddAnswer, defaultFolder, vmFolder, bridgedAdapter, adapters,
                 log>>

\* checkVBoxManage(), called from promptUser (bridged chosen) and from setupVM
CheckVBoxManage ==
  /\ status = "running"
  /\ pc \in {"checkVBoxPrompt", "checkVBox"}
  /\ events' = Append(events, CheckEvent)
  /\ IF ~vboxExists
       THEN /\ Exit1(<<"Failed: VBoxManage not found", "Please install VirtualBox">>)
            /\ UNCHANGED pc
       ELSE /\ pc' = IF pc = "checkVBoxPrompt" THEN "listAdapters" ELSE "checkImage"
            /\ UNCHANGED <<status, exitCode, log>>
  /\ UNCHANGED <<envVars, registry, reqVars>>

\* (variant of ListBridgedAdapters whose fallback leaves the mode bridged)
ListBridgedAdaptersKeepingBridged ==
  /\ Running("listAdapters")
  /\ \E ok \in BOOLEAN, output \in BridgedOutputs :
       /\ ok \/ output = <<>>
       /\ adapters' = listBridgedAdapters(ok, output)
       /\ events' = Append(events, ExecEvent("list bridgedifs", <<>>, NoSize, ok))
       /\ IF listBridgedAdapters(ok, output) = <<>>
            THEN /\ log' = Append(log, "No bridged adapters found. Using NAT.")
                 /\ ReturnRequest
                 /\ UNCHANGED networkType
            ELSE /\ pc' = "adapter"
                 /\ UNCHANGED <<log, networkType, hddSizeGB>>
  /\ UNCHANGED <<envVars, registry, status, exitCode, availableImages, virtualMachineName,
                 imgSelection, hddAnswer, defaultFolder, vmFolder, bridgedAdapter>>

ListBridgedAdapters ==
  /\ Running("listAdapters")
  /\ \E ok \in BOOLEAN, output \in BridgedOutputs :
       /\ ok \/ output = <<>>
       /\ adapters' = listBridgedAdapters(ok, output)
       /\ events' = Append(events, ExecEvent("list bridgedifs", <<>>, NoSize, ok))
       /\ IF listBridgedAdapters(ok, output) = <<>>
            THEN /\ log' = Append(log, "No bridged adapters found. Using NAT.")
                 /\ networkType' = "nat"
                 /\ ReturnRequest
            ELSE /\ pc' = "adapter"
                 /\ UNCHANGED <<log, networkType, hddSizeGB>>
  /\ UNCHANGED <<envVars, registry, status, exitCode, availableImages, virtualMachineName,
                 imgSelection, hddAnswer, defaultFolder, vmFolder, bridgedAdapter>>

PromptAdapter ==
  /\ Running("adapter")
  /\ \E i \in 1..Len(adapters) : bridgedAdapter' = Some(adapters[i])
  /\ events' = Append(events, PromptEvent("adapter", TRUE))
  /\ ReturnRequest
  /\ UNCHANGED <<envVars, registry, status, exitCode, availableImages, virtualMachineName,
                 imgSelection, hddAnswer, defaultFolder, vmFolder, networkType, adapters,
                 log>>

\* the operator aborts the prompt that is showing: it rejects with
\* ExitPromptError, which nothing catches before the process handler
CancelPrompt ==
  /\ status = "running"
  /\ pc \in PromptPcs
  /\ events' = Append(events, PromptEvent(pc, FALSE))
  /\ UncaughtException("ExitPromptError", log)
  /\ UNCHANGED <<envVars, registry, pc, reqVars>>

\* -------------------------------------------------------------- setupVM
\* (variant of NextStep that attaches the installer disk before the controller exists)
NextStepAttachBeforeController(at) ==
  CASE at = "createvm" -> "modifyvm"
    [] at = "modifyvm" -> IF variant = "base" THEN "listBridgedifs" ELSE "nic"
    [] at = "listBridgedifs" -> "nic"
    [] at = "nic" -> "convert"
    [] at = "convert" -> "attachInstaller"
    [] at = "attachInstaller" -> "storagectl"
    [] at = "storagectl" -> "createmedium"
    [] at = "createmedium" -> "attachRuntime"
    [] at = "attachRuntime" -> "start"
    [] at = "start" -> "done"

\* (variant of NextStep that looks for the image file after the machine is created)
NextStepChecksAfterCreate(at) ==
  CASE at = "createvm" -> "checkImage"
    [] at = "modifyvm" -> IF variant = "base" THEN "listBridgedifs" ELSE "nic"
    [] at = "listBridgedifs" -> "nic"
    [] at = "nic" -> "convert"
    [] at = "convert" -> "storagectl"
    [] at = "storagectl" -> "attachInstaller"
    [] at = "attachInstaller" -> "createmedium"
    [] at = "createmedium" -> "attachRuntime"
    [] at = "attachRuntime" -> "start"
    [] at = "start" -> "done"

\* (variant of NextStep that attaches the runtime disk before creating it)
NextStepAttachBeforeMedium(at) ==
  CASE at = "createvm" -> "modifyvm"
    [] at = "modifyvm" -> IF variant = "base" THEN "listBridgedifs" ELSE "nic"
    [] at = "listBridgedifs" -> "nic"
    [] at = "nic" -> "convert"
    [] at = "convert" -> "storagectl"
    [] at = "storagectl" -> "attachInstaller"
    [] at = "attachInstaller" -> "attachRuntime"
    [] at = "attachRuntime" -> "createmedium"
    [] at = "createmedium" -> "start"
    [] at = "start" -> "done"

\* the order of the steps of setupVM after the registry check
NextStep(at) ==
  CASE at = "createvm" -> "modifyvm"
    [] at = "modifyvm" -> IF variant = "base" THEN "listBridgedifs" ELSE "nic"
    [] at = "listBridgedifs" -> "nic"
    [] at = "nic" -> "convert"
    [] at = "convert" -> "storagectl"
    [] at = "storagectl" -> "attachInstaller"
    [] at = "attachInstaller" -> "createmedium"
    [] at = "createmedium" -> "attachRuntime"
    [] at = "attachRuntime" -> "start"
    [] at = "start" -> "done"

imgPath == PathJoin(<<"cwd", "\\", "images">>, imgSelection)

vmDir == PathJoin(vmFolder, virtualMachineName)

installerVdi == PathJoin(vmDir, <<"TcBSD_installer", ".", "vdi">>)

runtimeVhd == PathJoin(vmDir, <<"TcBSD", ".", "vhd">>)

vboxFile == PathJoin(vmDir, virtualMachineName \o <<".", "vbox">>)

\* (variant of RunCommand that goes on after a failed command)
RunCommandIgnoringFailure(at, op, arg, size, printed) ==
  /\ Running(at)
  /\ \E ok \in BOOLEAN :
       /\ events' = Append(events, ExecEvent(op, arg, size, ok))
       /\ pc' = NextStep(at)
       /\ log' = log \o printed
       /\ UNCHANGED <<status, exitCode>>

\* (variant of RunCommand that tries a failed command again)
RunCommandRetrying(at, op, arg, size, printed) ==
  /\ Running(at)
  /\ \E ok \in BOOLEAN :
       /\ events' = Append(events, ExecEvent(op, arg, size, ok))
       /\ IF ok /\ NextStep(at) # "done"
            THEN /\ pc' = NextStep(at)
                 /\ log' = log \o printed
                 /\ UNCHANGED <<status, exitCode>>
          ELSE IF ok
            THEN /\ pc' = "done"
                 /\ log' = log \o printed \o <<"setup complete.">>
                 /\ status' = "success"
                 /\ exitCode' = 0
          ELSE /\ log' = log \o printed
               /\ UNCHANGED <<pc, status, exitCode>>

\* one execSync of setupVM: printed comes before the call; a failing command
\* throws, and the error leaves setupVM for the process handler.  After the
\* last command setupVM prints the success line and returns: nothing is left
\* to run and node exits with status 0.
RunCommand(at, op, arg, size, printed) ==
  /\ Running(at)
  /\ \E ok \in BOOLEAN :
       /\ events' = Append(events, ExecEvent(op, arg, size, ok))
       /\ IF ok /\ NextStep(at) # "done"
            THEN /\ pc' = NextStep(at)
                 /\ log' = log \o printed
                 /\ UNCHANGED <<status, exitCode>>
          ELSE IF ok
            THEN /\ pc' = "done"
                 /\ log' = log \o printed \o <<"setup complete.">>
                 /\ status' = "success"
                 /\ exitCode' = 0
          ELSE /\ UncaughtException("Error", log \o printed)
               /\ UNCHANGED pc

CheckImage ==
  /\ Running("checkImage")
  /\ \E present \in BOOLEAN :
       /\ events' = Append(events, ImageCheckEvent(present))
       /\ IF ~present
            THEN /\ Exit1(<<"Failed: Missing image">>)
                 /\ UNCHANGED pc
            ELSE /\ pc' = "listVms"
                 /\ UNCHANGED <<status, exitCode, log>>
  /\ UNCHANGED <<envVars, registry, reqVars>>

\* (variant of ListVms that reports the collision and goes on)
ListVmsIgnoringCollision ==
  /\ Running("listVms")
  /\ \E ok \in BOOLEAN :
       /\ events' = Append(events, ExecEvent("list vms", IF ok THEN ListVmsOutput(registry) ELSE <<>>,
                                              NoSize, ok))
       /\ IF ~ok
            THEN /\ UncaughtException("Error", log)
                 /\ UNCHANGED pc
          ELSE IF Includes(ListVmsOutput(registry), Quoted(virtualMachineName))
            THEN /\ log' = log \o <<"Virtual Machine already exists.", "To recreate, delete it first.">>
                 /\ pc' = "createvm"
                 /\ UNCHANGED <<status, exitCode>>
          ELSE /\ pc' = "createvm"
               /\ UNCHANGED <<status, exitCode, log>>
  /\ UNCHANGED <<envVars, registry, reqVars>>

ListVms ==
  /\ Running("listVms")
  /\ \E ok \in BOOLEAN :
       /\ events' = Append(events, ExecEvent("list vms", IF ok THEN ListVmsOutput(registry) ELSE <<>>,
                                              NoSize, ok))
       /\ IF ~ok
            THEN /\ UncaughtException("Error", log)
                 /\ UNCHANGED pc
          ELSE IF Includes(ListVmsOutput(registry), Quoted(virtualMachineName))
            THEN /\ Exit1(<<"Virtual Machine already exists.", "To recreate, delete it first.">>)
                 /\ UNCHANGED pc
          ELSE /\ pc' = "createvm"
               /\ UNCHANGED <<status, exitCode, log>>
  /\ UNCHANGED <<envVars, registry, reqVars>>

\* createvm --register adds the machine to the registry
CreateVm ==
  /\ RunCommand("createvm", "createvm", virtualMachineName, NoSize, <<"Creating VM">>)
  /\ registry' = IF status' = "running" THEN Append(registry, virtualMachineName) ELSE registry
  /\ UNCHANGED <<envVars, reqVars>>

ModifyVm ==
  /\ RunCommand("modifyvm", "modifyvm", virtualMachineName, NoSize, <<>>)
  /\ UNCHANGED <<envVars, registry, reqVars>>

\* base variant only: the adapter is the first line of 'list bridgedifs'
ListBridgedifs ==
  /\ Running("listBridgedifs")
  /\ \E ok \in BOOLEAN, output \in BridgedOutputs :
       /\ ok \/ output = <<>>
       /\ events' = Append(events, ExecEvent("list bridgedifs", <<>>, NoSize, ok))
       /\ IF ok
            THEN /\ bridgedAdapter' = FirstAdapter(output)
                 /\ pc' = NextStep("listBridgedifs")
                 /\ UNCHANGED <<status, exitCode, log>>
            ELSE /\ UncaughtException("Error", log)
                 /\ UNCHANGED <<pc, bridgedAdapter>>
  /\ UNCHANGED <<envVars, registry, availableImages, virtualMachineName, imgSelection,
                 hddAnswer, hddSizeGB, defaultFolder, vmFolder, networkType, adapters>>

\* no command is issued when there is no adapter to bridge to
SkipNetwork ==
  /\ Running("nic")
  /\ pc' = NextStep("nic")
  /\ log' = Append(log, "No bridged adapters found. Network adapter will not be configured.")
  /\ UNCHANGED <<envVars, registry, reqVars, status, exitCode, events>>

ConfigureNetwork ==
  /\ IF variant = "extended" /\ networkType # "bridged"
       THEN RunCommand("nic", "modifyvm --nic1", <<"nat">>, NoSize,
                       <<"Setting network adapter to NAT">>)
     ELSE IF Truthy(bridgedAdapter)
       THEN RunCommand("nic", "modifyvm --nic1", <<"bridged">> \o bridgedAdapter.str, NoSize,
                       <<"Setting bridged network adapter">>)
     ELSE SkipNetwork
  /\ UNCHANGED <<envVars, registry, reqVars>>

ConvertImage ==
  /\ RunCommand("convert", "convertfromraw", imgPath, NoSize, <<"Converting image to installer VDI...">>)
  /\ UNCHANGED <<envVars, registry, reqVars>>

CreateStorageController ==
  /\ RunCommand("storagectl", "storagectl", virtualMachineName, NoSize, <<>>)
  /\ UNCHANGED <<envVars, registry, reqVars>>

AttachInstaller ==
  /\ RunCommand("attachInstaller", "storageattach", <<"port1">> \o installerVdi, NoSize, <<>>)
  /\ UNCHANGED <<envVars, registry, reqVars>>

\* (variant of CreateRuntimeDisk that passes the size in decimal megabytes)
CreateRuntimeDiskDecimal ==
  /\ RunCommand("createmedium", "createmedium", runtimeVhd, Times(hddSizeGB, 1000),
                <<"Creating runtime HDD">>)
  /\ UNCHANGED <<envVars, registry, reqVars>>

CreateRuntimeDisk ==
  /\ RunCommand("createmedium", "createmedium", runtimeVhd, Times(hddSizeGB, 1024),
                <<"Creating runtime HDD">>)
  /\ UNCHANGED <<envVars, registry, reqVars>>

AttachRuntime ==
  /\ RunCommand("attachRuntime", "storageattach", <<"port0">> \o runtimeVhd, NoSize, <<>>)
  /\ UNCHANGED <<envVars, registry, reqVars>>

\* the last command of setupVM
StartVm ==
  /\ RunCommand("start", "start", vboxFile, NoSize, <<"Starting Virtual Machine...">>)
  /\ UNCHANGED <<envVars, registry, reqVars>>

Next ==
  \/ GetAvailableImages
  \/ PromptName
  \/ PromptImage
  \/ PromptHddSize
  \/ GetDefaultVMFolder
  \/ PromptFolder
  \/ PromptNetwork
  \/ CheckVBoxManage
  \/ ListBridgedAdapters
  \/ PromptAdapter
  \/ CancelPrompt
  \/ CheckImage
  \/ ListVms
  \/ CreateVm
  \/ ModifyVm
  \/ ListBridgedifs
  \/ ConfigureNetwork
  \/ ConvertImage
  \/ CreateStorageController
  \/ AttachInstaller
  \/ CreateRuntimeDisk
  \/ AttachRuntime
  \/ StartVm

Spec == Init /\ [][Next]_vars

\* ------------------------------------------- two instances, one registry
\* A second instance of the tool runs at the same time against the same
\* VirtualBox: of its run, the registry check and the createvm command are
\* modelled, the two steps that read and write what both instances share.
RaceInit ==
  /\ variant \in {"base", "extended"}
  /\ vboxExists = TRUE
  /\ folderExists = TRUE
  /\ dirListing = << <<"tcbsd", ".", "iso">> >>
  /\ registry \in RegistryChoices
  /\ peerPc = "listVms"
  /\ peerName \in Names
  /\ peerListing = <<>>
  /\ pc = "getImages"
  /\ status = "running"
  /\ exitCode = NoExit
  /\ availableImages = <<>>
  /\ virtualMachineName = <<>>
  /\ imgSelection = <<>>
  /\ hddAnswer = <<>>
  /\ hddSizeGB = Num(0)
  /\ defaultFolder = Null
  /\ vmFolder = <<>>
  /\ networkType = "unset"
  /\ bridgedAdapter = Null
  /\ adapters = <<>>
  /\ events = <<>>
  /\ log = <<>>

runVars == <<pc, status, exitCode, reqVars, events, log>>

\* (variant of PeerListVms that goes on to createvm whatever the listing holds)
PeerListVmsIgnoringCollision ==
  /\ peerPc = "listVms"
  /\ \E ok \in BOOLEAN :
       IF ok
         THEN /\ peerListing' = ListVmsOutput(registry)
              /\ peerPc' = "createvm"
         ELSE /\ peerPc' = "crashed"
              /\ UNCHANGED peerListing
  /\ UNCHANGED <<variant, vboxExists, folderExists, dirListing, peerName, registry, runVars>>

\* the second instance reads the registry and looks for its quoted name
PeerListVms ==
  /\ peerPc = "listVms"
  /\ \E ok \in BOOLEAN :
       IF ok
         THEN /\ peerListing' = ListVmsOutput(registry)
              /\ peerPc' = IF Includes(ListVmsOutput(registry), Quoted(peerName))
                             THEN "fatal" ELSE "createvm"
         ELSE /\ peerPc' = "crashed"
              /\ UNCHANGED peerListing
  /\ UNCHANGED <<variant, vboxExists, folderExists, dirListing, peerName, registry, runVars>>

\* the second instance issues createvm --register for its name
PeerCreateVm ==
  /\ peerPc = "createvm"
  /\ \E ok \in BOOLEAN :
       /\ peerPc' = IF ok THEN "created" ELSE "createFailed"
       /\ registry' = IF ok THEN Append(registry, peerName) ELSE registry
  /\ UNCHANGED <<variant, vboxExists, folderExists, dirListing, peerName, peerListing, runVars>>

RaceNext ==
  \/ Next
  \/ PeerListVms
  \/ PeerCreateVm

RaceSpec == RaceInit /\ [][RaceNext]_vars

\* the run under the assumptions that every external command exits and that
\* the operator, at a prompt, in the end aborts or gives an accepted answer:
\* a step that can be taken is taken (a rejected answer changes nothing)
FairSpec == Spec /\ WF_vars(Next)

\* ------------------------------------------------ vocabulary of the claims
MutatingOps == {"createvm", "modifyvm", "modifyvm --nic1", "convertfromraw", "storagectl",
                "storageattach", "createmedium", "start"}

IsMutating(e) == e.kind = "exec" /\ e.op \in MutatingOps

\* the mutating commands issued so far, in order
Issued == SelectSeq(events, IsMutating)

\* what a command is, up to the names and paths of the request
Tag(e) ==
  IF e.op \in {"storageattach", "modifyvm --nic1"} THEN <<e.op, e.arg[1]>>
  ELSE <<e.op, "">>

IssuedTags == MapSeq(Issued, Tag)

Range(q) == {q[i] : i \in 1..Len(q)}

Last(q) == q[Len(q)]

OrchestratorPcs == {"checkVBox", "checkImage", "listVms", "createvm", "modifyvm",
                    "listBridgedifs", "nic", "convert", "storagectl", "attachInstaller",
                    "createmedium", "attachRuntime", "start", "done"}

AfterNicPcs == {"convert", "storagectl", "attachInstaller", "createmedium", "attachRuntime",
                "start", "done"}

\* the fixed sequence, with the network command that the request asks for
FixedSequence(nic) ==
  <<<<"createvm", "">>, <<"modifyvm", "">>>> \o nic \o
  <<<<"convertfromraw", "">>, <<"storagectl", "">>, <<"storageattach", "port1">>,
    <<"createmedium", "">>, <<"storageattach", "port0">>, <<"start", "">>>>

\* ------------------------------------------------------------- claims
\* C1: a run that meets a configuration or precondition fatal (executable
\* missing, image folder missing, no recognized image, selected image missing
\* when setupVM looks, requested name quoted in the 'list vms' output) ends
\* fatally and has issued no mutating command.
C1_FatalIssuesNothing ==
  /\ status = "fatal" => Issued = <<>>
  /\ (~vboxExists \/ ~folderExists \/ FilterImages(variant, dirListing) = <<>>) => Issued = <<>>
  /\ \A e \in Range(events) :
       /\ (e.op = "existsSync image" /\ ~e.ok) => (Issued = <<>> /\ status = "fatal")
       /\ (e.op = "list vms" /\ e.ok /\ Includes(e.arg, Quoted(virtualMachineName)))
            => (Issued = <<>> /\ status = "fatal")

C1_Witness ==
  /\ status = "fatal"
  /\ pc = "listVms"
  /\ \E e \in Range(events) :
       e.op = "list vms" /\ e.ok /\ Includes(e.arg, Quoted(virtualMachineName))

\* C2: a successful run of the extended variant has issued exactly createvm,
\* modifyvm, modifyvm --nic1, convertfromraw, storagectl, storageattach port 1,
\* createmedium, storageattach port 0, start, each once, in this order and
\* each succeeding; success is printed only after start, and the exit status is 0.
C2_HappyPathOrder ==
  variant = "extended" =>
    /\ status = "success" =>
         /\ IssuedTags = FixedSequence(<<<<"modifyvm --nic1", networkType>>>>)
         /\ \A e \in Range(Issued) : e.ok
         /\ exitCode = 0
    /\ "setup complete." \in Range(log) =>
         /\ Issued # <<>>
         /\ Last(Issued).op = "start"
         /\ Last(Issued).ok
         /\ status = "success"

C2_Witness ==
  /\ variant = "extended"
  /\ status = "success"
  /\ networkType = "bridged"
  /\ Len(Issued) = 9

\* C3 (as claimed): the disk size of every request that promptUser returns
\* is an integer greater than zero.
RequestReturned == pc \in OrchestratorPcs

C3_DiskSizePositiveInteger == RequestReturned => IsPositiveInteger(hddSizeGB)

\* C4: extended variant, Bridged chosen and no adapter listed: the request
\* has mode nat and no adapter, "Using NAT" was printed, no bridged command is
\* ever issued, and the network step issues the NAT command.
ChoseBridged ==
  /\ variant = "extended"
  /\ \E e \in Range(events) : e.op = "list bridgedifs"

C4_BridgedWithoutAdaptersIsNat ==
  (ChoseBridged /\ adapters = <<>>) =>
    /\ networkType = "nat"
    /\ bridgedAdapter = Null
    /\ "No bridged adapters found. Using NAT." \in Range(log)
    /\ <<"modifyvm --nic1", "bridged">> \notin Range(IssuedTags)
    /\ (pc \in AfterNicPcs \/ (pc = "nic" /\ status # "running"))
         => <<"modifyvm --nic1", "nat">> \in Range(IssuedTags)

C4_Witness ==
  /\ ChoseBridged
  /\ adapters = <<>>
  /\ status = "success"

\* C5: prompts are only shown before the first mutating command; when the
\* operator aborts a prompt the run ends there with no mutating command issued
\* and the handler prints "Exiting" instead of the error.
Aborted == events # <<>> /\ Last(events).kind = "prompt" /\ ~Last(events).ok

C5_CancelOnlyWhileCollecting ==
  /\ \A i, j \in 1..Len(events) :
       (events[i].kind = "prompt" /\ IsMutating(events[j])) => i < j
  /\ \A i \in 1..Len(events) :
       (events[i].kind = "prompt" /\ ~events[i].ok) => i = Len(events)
  /\ Aborted =>
       /\ status = "cancelled"
       /\ pc \in PromptPcs
       /\ Issued = <<>>
       /\ Last(log) = "Exiting"
       /\ "<uncaught error and stack trace>" \notin Range(log)
  /\ status = "cancelled" => Aborted

C5_Witness ==
  /\ Aborted
  /\ pc = "image"
  /\ status = "cancelled"

\* C6: when a mutating command fails the run ends at once: the failed
\* command is the last thing the run did, the commands issued are exactly the
\* fixed sequence up to it (all before it having succeeded), and nothing else,
\* so no command that undoes an earlier step.
NicOfRun ==
  IF variant = "extended" THEN <<<<"modifyvm --nic1", networkType>>>>
  ELSE IF Truthy(bridgedAdapter) THEN <<<<"modifyvm --nic1", "bridged">>>>
  ELSE <<>>

C6_FailureHaltsWithoutRollback ==
  \A k \in 1..Len(events) :
    (IsMutating(events[k]) /\ ~events[k].ok) =>
      /\ k = Len(events)
      /\ status = "crashed"
      /\ IssuedTags = SubSeq(FixedSequence(NicOfRun), 1, Len(Issued))
      /\ \A i \in 1..(Len(Issued) - 1) : Issued[i].ok

C6_Witness ==
  /\ status = "crashed"
  /\ pc = "createmedium"
  /\ Len(Issued) >= 6
  /\ ~Last(Issued).ok

\* C7 (as claimed): the existence check of the executable is the first thing
\* a run does among checks of it, prompts and external commands, it happens
\* once, and without the executable no prompt is shown.
IsVBoxCheck(e) == e.kind = "check" /\ e.op = "existsSync VBoxManage.exe"

C7_ExecutableCheckedFirstAndOnce ==
  /\ \A i \in 1..Len(events) :
       (events[i].kind \in {"prompt", "exec"}) => \E j \in 1..(i - 1) : IsVBoxCheck(events[j])
  /\ Len(SelectSeq(events, IsVBoxCheck)) <= 1
  /\ ~vboxExists => \A e \in Range(events) : e.kind # "prompt"

\* C8: the exit status is 0 when the whole sequence has run, and 1 on every
\* fatal path: executable missing, folder missing, no image, image missing,
\* name registered.
C8_ExitStatus ==
  /\ status = "running" => exitCode = NoExit
  /\ status = "success" =>
       /\ exitCode = 0
       /\ Len(Issued) >= 8
       /\ Last(Issued).op = "start"
  /\ status = "fatal" => exitCode > 0
  /\ (pc = "getImages" /\ status # "running") => (status = "fatal" /\ exitCode > 0)
  /\ \A e \in Range(events) :
       (/\ e.kind \in {"check", "exec"}
        /\ \/ e.kind = "check" /\ ~e.ok
           \/ e.op = "list vms" /\ e.ok /\ Includes(e.arg, Quoted(virtualMachineName)))
         => (status = "fatal" /\ exitCode > 0)

C8_Witness ==
  /\ status = "fatal"
  /\ pc = "checkImage"
  /\ exitCode = 1

\* C9 (as claimed): a run ended by the abort of a prompt has a non-zero exit
\* status and has printed the quiet message only.
C9_CancelExitsNonZero ==
  status = "cancelled" =>
    /\ exitCode > 0
    /\ Last(log) = "Exiting"
    /\ "<uncaught error and stack trace>" \notin Range(log)

\* C10 (as claimed): getDefaultVMFolder always yields a path: the folder of
\* the label when the output has it, the fallback under the home directory
\* otherwise; the run goes on in every case.
DefaultFolderComputed == \E e \in Range(events) : e.op = "list systemproperties"

C10_DefaultFolderAlwaysAPath ==
  DefaultFolderComputed =>
    /\ ~defaultFolder.isNull
    /\ defaultFolder.str # <<>>
    /\ (status = "running" \/ pc # "getDefaultFolder")

\* C11 (as claimed): a failed 'list bridgedifs' never ends the run, wherever
\* the program issues it: the run goes on with no adapter (extended: mode nat).
C11_BridgedListingFailureNeverHalts ==
  \A k \in 1..Len(events) :
    (events[k].op = "list bridgedifs" /\ ~events[k].ok) =>
      /\ status # "crashed" \/ k < Len(events)
      /\ ~Truthy(bridgedAdapter)
      /\ variant = "extended" => networkType = "nat"

\* C12 (as claimed): a run that has ended has issued none of the mutating
\* commands or the whole fixed sequence.
Terminated == status # "running"

C12_AllOrNothing ==
  Terminated => (Issued = <<>> \/ IssuedTags = FixedSequence(NicOfRun))

\* C12 (amended): a run that has ended has issued none of the mutating
\* commands (fatal exit, cancellation) or the whole fixed sequence, each
\* command succeeding (success), unless a failed external command ended it:
\* then it has issued the fixed sequence up to where it stopped.
C12_AllOrNothingUnlessCommandFails ==
  /\ status \in {"fatal", "cancelled"} => Issued = <<>>
  /\ status = "success" =>
       /\ IssuedTags = FixedSequence(NicOfRun)
       /\ \A e \in Range(Issued) : e.ok
  /\ status = "crashed" =>
       /\ Last(events).kind = "exec"
       /\ ~Last(events).ok
       /\ IssuedTags = SubSeq(FixedSequence(NicOfRun), 1, Len(Issued))

C12_Witness ==
  /\ status = "crashed"
  /\ Len(Issued) = 3
  /\ IssuedTags # FixedSequence(NicOfRun)

\* C14: once discovery has returned, the images are exactly the names of the
\* listing with a recognized extension (.iso, and .img in the extended
\* variant), in listing order, and there is at least one; with the folder
\* absent or no such name the run never gets past discovery and ends fatally;
\* the image prompt is shown with at least one choice and what is selected is
\* one of the discovered images.
ImageExtensions(v) == IF v = "base" THEN {"iso"} ELSE {"iso", "img"}

HasImageExtension(v, f) ==
  /\ Len(f) >= 2
  /\ f[Len(f) - 1] = "."
  /\ f[Len(f)] \in ImageExtensions(v)

PositionIn(D, f) == CHOOSE k \in 1..Len(D) : D[k] = f

IsRecognizedSubsequence(sub, D, v) ==
  /\ Range(sub) = {f \in Range(D) : HasImageExtension(v, f)}
  /\ \A i, j \in 1..Len(sub) : i < j => PositionIn(D, sub[i]) < PositionIn(D, sub[j])

DiscoveryReturned == pc # "getImages"

C14_DiscoveredImages ==
  /\ DiscoveryReturned =>
       /\ folderExists
       /\ availableImages # <<>>
       /\ IsRecognizedSubsequence(availableImages, dirListing, variant)
  /\ (~folderExists \/ \A f \in Range(dirListing) : ~HasImageExtension(variant, f)) =>
       /\ ~DiscoveryReturned
       /\ status \in {"running", "fatal"}
       /\ events = <<>>
  /\ \A e \in Range(events) :
       (e.kind = "prompt" /\ e.op = "image") =>
         /\ availableImages # <<>>
         /\ e.ok => /\ imgSelection \in Range(availableImages)
                    /\ HasImageExtension(variant, imgSelection)

C14_Witness ==
  /\ variant = "extended"
  /\ Len(dirListing) = 2
  /\ \E f \in Range(dirListing) : ~HasImageExtension(variant, f)
  /\ imgSelection = <<"rt", ".", "img">>
  /\ \E e \in Range(events) : e.kind = "prompt" /\ e.op = "image" /\ e.ok

\* C15: every createmedium command carries the size 1024 times the disk size
\* of the request: 10240 for 10 GB (the default), 1024 for 1 GB.
C15_DiskSizeInMegabytes ==
  \A e \in Range(events) :
    e.op = "createmedium" =>
      /\ e.size.nan = hddSizeGB.nan
      /\ ~hddSizeGB.nan => e.size.num * hddSizeGB.den = hddSizeGB.num * 1024 * e.size.den
      /\ hddAnswer = <<"1", "0">> => e.size = Num(10240)
      /\ hddAnswer = <<"1">> => e.size = Num(1024)

C15_Witness ==
  /\ hddAnswer = <<"1", "0">>
  /\ \E e \in Range(events) : e.op = "createmedium" /\ e.ok /\ e.size = Num(10240)

\* C16: every issued command comes after the successful completion of the
\* commands it depends on: modifyvm, storagectl and storageattach after a
\* successful createvm; storageattach after a successful storagectl; the
\* port 1 attach after a successful convertfromraw; the port 0 attach after a
\* successful createmedium; and a command is issued only when every command
\* before it has exited (and succeeded): never two at a time.
SucceededBefore(j, tag) ==
  \E i \in 1..(j - 1) : Tag(Issued[i]) = tag /\ Issued[i].ok

C16_DependenciesFirst ==
  /\ \A j \in 1..Len(Issued) :
       LET e == Issued[j]
       IN /\ e.op \in {"modifyvm", "modifyvm --nic1", "storagectl", "storageattach"}
               => SucceededBefore(j, <<"createvm", "">>)
          /\ e.op = "storageattach" => SucceededBefore(j, <<"storagectl", "">>)
          /\ Tag(e) = <<"storageattach", "port1">> => SucceededBefore(j, <<"convertfromraw", "">>)
          /\ Tag(e) = <<"storageattach", "port0">> => SucceededBefore(j, <<"createmedium", "">>)
  /\ \A k \in 1..(Len(events) - 1) :
       (events[k].kind = "exec" /\ ~events[k].ok) =>
         events[k].op \in {"list systemproperties", "list bridgedifs"}
  /\ \A i \in 1..(Len(Issued) - 1) : Issued[i].ok

C16_Witness ==
  /\ Len(Issued) >= 7
  /\ Tag(Last(Issued)) = <<"storageattach", "port0">>
  /\ ~Last(Issued).ok
  /\ status = "crashed"

\* C17: extended variant: a returned request has mode bridged exactly when it
\* has an adapter, a non-empty name from the discovered list; so the network
\* step never skips, and a run past it has issued exactly one network command.
NetworkCommands == {k \in 1..Len(Issued) : Issued[k].op = "modifyvm --nic1"}

SkippedNetwork ==
  \E k \in 1..Len(log) : log[k] = "No bridged adapters found. Network adapter will not be configured."

C17_BridgedIffAdapter ==
  (variant = "extended" /\ RequestReturned) =>
    /\ networkType \in {"nat", "bridged"}
    /\ networkType = "bridged" <=> Truthy(bridgedAdapter)
    /\ ~bridgedAdapter.isNull => /\ bridgedAdapter.str # <<>>
                                 /\ bridgedAdapter.str \in Range(adapters)
    /\ ~SkippedNetwork
    /\ pc \in AfterNicPcs => Cardinality(NetworkCommands) = 1
    /\ Cardinality(NetworkCommands) <= 1

C17_Witness ==
  /\ variant = "extended"
  /\ networkType = "bridged"
  /\ bridgedAdapter = Some(<<"Wi">>)
  /\ pc \in AfterNicPcs
  /\ \E k \in NetworkCommands : Issued[k].arg[1] = "bridged" /\ Issued[k].ok

\* C18: under the assumptions of FairSpec every run reaches a terminal state
\* (success, fatal exit, crash on a failed command, or cancellation), and no
\* external command is attempted twice in a run.
CommandOf(e) == IF e.op = "storageattach" THEN <<e.op, e.arg[1]>> ELSE <<e.op, "">>

AttemptedAtMostOnce ==
  \A i, j \in 1..Len(events) :
    (i < j /\ events[i].kind = "exec" /\ events[j].kind = "exec")
      => CommandOf(events[i]) # CommandOf(events[j])

C18_EveryRunTerminates ==
  /\ []AttemptedAtMostOnce
  /\ <>(status \in {"success", "fatal", "crashed", "cancelled"})

C18_Witness ==
  /\ status = "success"
  /\ variant = "base"
  /\ Cardinality({k \in 1..Len(events) : events[k].kind = "exec"}) = 12

\* C13: an instance issues createvm only for a name that the 'list vms'
\* output it read did not hold quoted; nothing else keeps two instances
\* apart, so with two of them running for one name both may pass the registry
\* check and both issue createvm (the state C13_Witness).
ThisIssuedCreateVm == \E e \in Range(Issued) : e.op = "createvm"

PeerIssuedCreateVm == peerPc \in {"created", "createFailed"}

C13_CreateOnlyForUnlistedName ==
  /\ ThisIssuedCreateVm =>
       \E k \in 1..Len(events) :
         /\ events[k].op = "list vms"
         /\ events[k].ok
         /\ ~Includes(events[k].arg, Quoted(virtualMachineName))
         /\ \A j \in 1..k : events[j].op # "createvm"
  /\ PeerIssuedCreateVm => ~Includes(peerListing, Quoted(peerName))
  /\ peerPc = "fatal" => Includes(peerListing, Quoted(peerName))

C13_Witness ==
  /\ ThisIssuedCreateVm
  /\ PeerIssuedCreateVm
  /\ peerName = virtualMachineName
  /\ \E e \in Range(events) : e.op = "list vms" /\ e.ok /\ e.arg = peerListing
  /\ Cardinality({k \in 1..Len(registry) : registry[k] = peerName}) = 2

====
